---- MODULE Spec2Model ----
(***************************************************************************)
(* Model of FilmEfficientNetEncoder                                        *)
(* (robotic_transformer_pytorch/film_efficientnet/                         *)
(*  pretrained_efficientnet_encoder.py).                                   *)
(*                                                                         *)
(* Tensors are records [shape, data]: shape is the sequence of dimension   *)
(* sizes, data the elements in row-major order.  Pixel values are reals    *)
(* kept in fixed point, in units of 1/One with One = 255 * 255, so that    *)
(* the division by 255.0 of every modelled pixel value is exact.           *)
(*                                                                         *)
(* The collaborators that are not part of the file (the backbone, the      *)
(* 1x1 convolution's learned weights, the FiLM layer, the torchvision      *)
(* preprocessing transform) are uninterpreted: their result is the term    *)
(* [op, args] naming the operation and its arguments, the most general     *)
(* interpretation of a deterministic function.  A feature tensor keeps     *)
(* its shape exactly and its data as one term per spatial position (the    *)
(* positions of the dimensions after batch and channel).                   *)
(***************************************************************************)
EXTENDS Integers, Sequences, FiniteSets, TLC

VARIABLES enc, ctorError, built, pc, call

vars == <<enc, ctorError, built, pc, call>>

---------------------------------------------------------------------------
(* Bounds of the explored inputs *)

MaxRank == 5

MaxDim == 3

MaxElems == 9

PatternLen == 2

NumContexts == 1

---------------------------------------------------------------------------
(* Values *)

None == [kind |-> "None"]

NoEncoder == [kind |-> "NoEncoder"]

NoCall == [kind |-> "NoCall"]

\* 1.0 in the fixed-point unit (1/65025)
One == 255 * 255

\* in_channels of conv1x1: the backbone's native feature width
NativeWidth == 1536

\* out_channels of conv1x1 and num_channels of film_layer
TargetWidth == 512

\* width of the backbone's classification head (include_top)
TopWidth == 1000

_MODELS == {"b3"}

RECURSIVE Prod(_)
Prod(s) == IF s = <<>> THEN 1 ELSE Head(s) * Prod(Tail(s))

\* number of elements after axis k (1-based) in row-major order
Stride(shape, k) == Prod(SubSeq(shape, k + 1, Len(shape)))

\* coordinate along axis k of the 0-based linear position p
Coord(p, shape, k) == (p \div Stride(shape, k)) % shape[k]

RECURSIVE SeqMax(_)
SeqMax(s) ==
  IF Len(s) = 1 THEN s[1]
  ELSE LET m == SeqMax(Tail(s)) IN IF s[1] >= m THEN s[1] ELSE m

RECURSIVE SeqMin(_)
SeqMin(s) ==
  IF Len(s) = 1 THEN s[1]
  ELSE LET m == SeqMin(Tail(s)) IN IF s[1] <= m THEN s[1] ELSE m

\* torch.max(image), torch.min(image): the global extremum
torch_max(t) == SeqMax(t.data)

torch_min(t) == SeqMin(t.data)

\* Tensor.unsqueeze(dim): a new axis of size 1 at 0-based position dim
unsqueeze(t, dim) ==
  [t EXCEPT !.shape = SubSeq(@, 1, dim) \o <<1>> \o SubSeq(@, dim + 1, Len(@))]

RECURSIVE OldPos(_, _, _, _, _)
OldPos(p, oldShape, newShape, dims, k) ==
  IF k > Len(dims) THEN 0
  ELSE Coord(p, newShape, k) * Stride(oldShape, dims[k] + 1)
       + OldPos(p, oldShape, newShape, dims, k + 1)

\* Tensor.permute(*dims): axis k of the result is axis dims[k] (0-based)
\* of the argument
permute(t, dims) ==
  LET newShape == [k \in 1..Len(dims) |-> t.shape[dims[k] + 1]]
  IN [shape |-> newShape,
      data  |-> [j \in 1..Len(t.data) |->
                   t.data[1 + OldPos(j - 1, t.shape, newShape, dims, 1)]]]

\* image / 255.0
div255(t) == [t EXCEPT !.data = [i \in 1..Len(@) |-> @[i] \div 255]]

---------------------------------------------------------------------------
(* Inputs *)

Variants == {"b0", "b3", "b7", ""}

Weights == {"DEFAULT", "IMAGENET1K_V1"}

\* -1.0, 0.0, 0.2, 1.0, 255.0, 256.0
PixelValues == {0 - One, 0, One \div 5, One, 255 * One, 256 * One}

Shapes ==
  {s \in UNION {[1..r -> 1..MaxDim] : r \in 0..MaxRank} : Prod(s) <= MaxElems}

Patterns == [1..PatternLen -> PixelValues]

Fill(p, n) == [i \in 1..n |-> p[((i - 1) % Len(p)) + 1]]

Images == {[shape |-> s, data |-> Fill(p, Prod(s))] : s \in Shapes, p \in Patterns}

Contexts == {None} \cup {[kind |-> "tensor", id |-> i] : i \in 1..NumContexts}

---------------------------------------------------------------------------
(* Collaborators (uninterpreted) *)

\* filmefficientnet_b3(include_top, weights): the backbone instance
filmefficientnet_b3(include_top, weights) ==
  [op |-> "filmefficientnet_b3", include_top |-> include_top, weights |-> weights]

\* EfficientNet_B3_Weights.DEFAULT.transforms(antialias=True)(image)
preprocess(image) == [op |-> "preprocess", args |-> <<image>>]

\* self.net(image, context): a per-image summary of rank 2, (batch, width)
net(self, x, batch, context) ==
  [shape |-> <<batch, IF self.include_top THEN TopWidth ELSE NativeWidth>>,
   data  |-> <<[op |-> "net", args |-> <<self.net, x, context>>]>>]

\* self.conv1x1(features): 1x1 kernel, stride 1, padding "same", no bias:
\* the channel axis goes from in_channels to out_channels, the spatial
\* extent is kept
conv1x1(self, features) ==
  [shape |-> [features.shape EXCEPT ![2] = self.conv1x1.out_channels],
   data  |-> [p \in 1..Len(features.data) |->
                [op |-> "conv1x1", args |-> <<features.data[p]>>]]]

\* self.film_layer(features, context): per-channel scale and shift
film_layer(self, features, context) ==
  [shape |-> features.shape,
   data  |-> [p \in 1..Len(features.data) |->
                [op |-> "film_layer", args |-> <<features.data[p], context>>]]]

\* the mean of the values of one pooling window; a window of one position
\* is that position's value (x / 1)
WindowMean(w) == IF Len(w) = 1 THEN w[1] ELSE [op |-> "mean", args |-> w]

\* nn.functional.avg_pool2d(features, (kh, kw)): stride = kernel, no padding
avg_pool2d(features, kernel) ==
  LET H  == features.shape[3]
      W  == features.shape[4]
      kh == kernel[1]
      kw == kernel[2]
      Ho == H \div kh
      Wo == W \div kw
      Window(q) ==
        LET i == (q - 1) \div Wo
            j == (q - 1) % Wo
        IN [n \in 1..(kh * kw) |->
              features.data[(i * kh + ((n - 1) \div kw)) * W
                            + (j * kw + ((n - 1) % kw)) + 1]]
  IN [shape |-> <<features.shape[1], features.shape[2], Ho, Wo>>,
      data  |-> [q \in 1..(Ho * Wo) |-> WindowMean(Window(q))]]

\* Tensor.flatten(1): every axis from axis 1 on becomes one axis
flatten1(features) ==
  [shape |-> <<features.shape[1], Prod(Tail(features.shape))>>,
   data  |-> IF Len(features.data) = 1 THEN features.data
             ELSE <<[op |-> "flatten", args |-> features.data]>>]

---------------------------------------------------------------------------
(* FilmEfficientNetEncoder.forward, step by step.  A frame fr carries the   *)
(* local variables image and features and the trace of the steps that ran. *)

Frame(image) == [image |-> image, features |-> None, trace |-> <<>>]

\* the assertion left out
IncludeTopOk_NoAssert(self, context) == TRUE

\* if self.include_top: assert context is None
IncludeTopOk(self, context) == self.include_top => context = None

\* the new axis appended as the last axis instead of the first
AddBatch_Trailing(fr) ==
  IF Len(fr.image.shape) = 3
  THEN [fr EXCEPT !.image = unsqueeze(@, 3), !.trace = Append(@, "unsqueeze")]
  ELSE fr

\* if len(image.shape) == 3: image = image.unsqueeze(0)
AddBatch(fr) ==
  IF Len(fr.image.shape) = 3
  THEN [fr EXCEPT !.image = unsqueeze(@, 0), !.trace = Append(@, "unsqueeze")]
  ELSE fr

\* the rank checked from below only
RankOk_AtLeast(fr) == Len(fr.image.shape) >= 4

\* assert len(image.shape) == 4
RankOk(fr) == Len(fr.image.shape) = 4

\* height and width exchanged by the permutation
ToChannelFirst_Swapped(fr) ==
  IF fr.image.shape[Len(fr.image.shape)] = 3
  THEN [fr EXCEPT !.image = permute(@, <<0, 3, 2, 1>>),
                  !.trace = Append(@, "permute")]
  ELSE fr

\* if image.shape[-1] == 3: image = image.permute(0, 3, 1, 2)
ToChannelFirst(fr) ==
  IF fr.image.shape[Len(fr.image.shape)] = 3
  THEN [fr EXCEPT !.image = permute(@, <<0, 3, 1, 2>>),
                  !.trace = Append(@, "permute")]
  ELSE fr

\* if torch.max(image) >= 1.0: image = image / 255.0
Rescale(fr) ==
  IF torch_max(fr.image) >= One
  THEN [fr EXCEPT !.image = div255(@), !.trace = Append(@, "div255")]
  ELSE fr

\* only the upper end of the range checked
RangeOk_MaxOnly(fr) == torch_max(fr.image) <= One

\* assert torch.min(image) >= 0.0 and torch.max(image) <= 1.0
RangeOk(fr) == torch_min(fr.image) >= 0 /\ torch_max(fr.image) <= One

\* features = self.net(preprocess(image), context)
\* features = features.unsqueeze(2).unsqueeze(3)
Backbone(self, fr, context) ==
  [fr EXCEPT
     !.features = unsqueeze(unsqueeze(
                    net(self, preprocess(fr.image), fr.image.shape[1], context),
                    2), 3),
     !.trace = @ \o <<"preprocess", "net">>]

\* Conv2d accepts only inputs whose channel count is in_channels
ConvOk(self, fr) == fr.features.shape[2] = self.conv1x1.in_channels

\* the conditioner applied before the projector
Condition_FilmFirst(self, fr, context) ==
  IF context # None
  THEN [fr EXCEPT
          !.features = conv1x1(self, film_layer(self, @, context)),
          !.trace = @ \o <<"film_layer", "conv1x1">>]
  ELSE fr

\* if context is not None: conv1x1, then film_layer
Condition(self, fr, context) ==
  IF context # None
  THEN [fr EXCEPT
          !.features = film_layer(self, conv1x1(self, @), context),
          !.trace = @ \o <<"conv1x1", "film_layer">>]
  ELSE fr

\* the flatten done in the pooling branch only
Reduce_FlattenIfPooled(self, fr) ==
  IF self._pooling
  THEN [fr EXCEPT
          !.features = flatten1(avg_pool2d(@, <<@.shape[3], @.shape[4]>>)),
          !.trace = @ \o <<"avg_pool2d", "flatten">>]
  ELSE fr

\* if self._pooling: avg_pool2d over (features.shape[2], features.shape[3]);
\* features = features.flatten(1)
Reduce(self, fr) ==
  LET pooled ==
        IF self._pooling
        THEN [fr EXCEPT
                !.features = avg_pool2d(@, <<@.shape[3], @.shape[4]>>),
                !.trace = Append(@, "avg_pool2d")]
        ELSE fr
  IN [pooled EXCEPT !.features = flatten1(@), !.trace = Append(@, "flatten")]

Raise(error, fr) ==
  [error |-> error, output |-> None, trace |-> fr.trace, canon |-> None]

Return(fr, canon) ==
  [error |-> "None", output |-> fr.features, trace |-> fr.trace, canon |-> canon]

\* the outcome of self.forward(image, context): the error raised or the
\* tensor returned, the steps that ran, and the image handed to preprocess
forward(self, image, context) ==
  IF ~IncludeTopOk(self, context) THEN Raise("UsageError", Frame(image))
  ELSE
  LET f1 == AddBatch(Frame(image)) IN
  IF ~RankOk(f1) THEN Raise("ShapeError", f1)
  ELSE
  LET f2 == Rescale(ToChannelFirst(f1)) IN
  IF ~RangeOk(f2) THEN Raise("RangeError", f2)
  ELSE
  LET f3 == Backbone(self, f2, context) IN
  IF context # None /\ ~ConvOk(self, f3) THEN Raise("RuntimeError", f3)
  ELSE Return(Reduce(self, Condition(self, f3, context)), f2.image)

---------------------------------------------------------------------------
(* State machine: a caller that constructs encoders and calls forward *)

\* the lookup not guarded
KnownVariant_Any(model_variant) == TRUE

\* if model_variant not in _MODELS: raise ValueError
KnownVariant(model_variant) == model_variant \in _MODELS

Init ==
  /\ enc = NoEncoder
  /\ ctorError = "None"
  /\ built = <<>>
  /\ pc = "idle"
  /\ call = NoCall

\* FilmEfficientNetEncoder.__init__(model_variant, weights, include_top,
\* pooling): the instance, or the error raised
__init__(model_variant, weights, include_top, pooling) ==
  IF ~KnownVariant(model_variant)
  THEN [error |-> "ConfigError", self |-> NoEncoder, built |-> <<>>]
  ELSE [error |-> "None",
        self  |-> [kind |-> "FilmEfficientNetEncoder",
                   net |-> filmefficientnet_b3(include_top, weights),
                   include_top |-> include_top,
                   conv1x1 |-> [in_channels |-> NativeWidth,
                                out_channels |-> TargetWidth],
                   film_layer |-> [num_channels |-> TargetWidth],
                   _pooling |-> pooling],
        built |-> <<"net", "conv1x1", "film_layer">>]

\* the caller constructs an encoder
Construct ==
  /\ pc = "idle"
  /\ \E v \in Variants, w \in Weights, t \in BOOLEAN, p \in BOOLEAN :
       LET r == __init__(v, w, t, p)
       IN /\ ctorError' = r.error
          /\ enc' = r.self
          /\ built' = r.built
          /\ call' = [kind |-> "Construct", model_variant |-> v]
  /\ UNCHANGED pc

\* the caller runs one whole forward pass on the encoder it holds, and then
\* holds the outcome
Forward ==
  /\ pc = "idle"
  /\ enc # NoEncoder
  /\ \E image \in Images, context \in Contexts :
       call' = [kind |-> "Forward", image |-> image, context |-> context,
                out |-> forward(enc, image, context)]
  /\ pc' = "returned"
  /\ UNCHANGED <<enc, ctorError, built>>

\* the caller drops the outcome; nothing of the call persists in the encoder
Release ==
  /\ pc = "returned"
  /\ pc' = "idle"
  /\ call' = NoCall
  /\ UNCHANGED <<enc, ctorError, built>>

Next ==
  \/ Construct
  \/ Forward
  \/ Release

Spec == Init /\ [][Next]_vars

---------------------------------------------------------------------------
(* Properties *)

Returned == pc = "returned"

\* the steps of canonicalization and everything after it
LaterSteps ==
  {"permute", "div255", "preprocess", "net", "conv1x1", "film_layer",
   "avg_pool2d", "flatten"}

Ran(step) == \E i \in DOMAIN call.out.trace : call.out.trace[i] = step

Times(step) == Cardinality({i \in DOMAIN call.out.trace : call.out.trace[i] = step})

At(step) == CHOOSE i \in DOMAIN call.out.trace : call.out.trace[i] = step

Rank == Len(call.image.shape)

\* the image with a leading batch axis of size 1 put in front
PreExpanded(image) == [image EXCEPT !.shape = <<1>> \o @]

\* the image of the call as a rank-4 image
Img4 == IF Rank = 3 THEN PreExpanded(call.image) ELSE call.image

InUnit(x) == 0 <= x /\ x <= One

\* C1: with include_top set, a forward call that is given a context fails
\* with the usage error whatever the image is, before any other step runs
\* and without returning a tensor.
C1_IncludeTopRejectsContext ==
  (Returned /\ enc.include_top /\ call.context # None)
    => /\ call.out.error = "UsageError"
       /\ call.out.trace = <<>>
       /\ call.out.output = None
       /\ call.out.canon = None

C1_Witness ==
  /\ Returned /\ enc.include_top /\ call.context # None
  /\ Rank = 5
  /\ torch_max(call.image) > 255 * One
  /\ call.out.error = "UsageError"

\* C2: forward on a rank-3 image gives the outcome (the error, or the
\* tensor returned and the image handed to preprocessing) of forward on the
\* same image with a leading batch axis of size 1.
C2_BatchInsertionLossless ==
  (Returned /\ Rank = 3)
    => LET other == forward(enc, PreExpanded(call.image), call.context)
       IN /\ call.out.error = other.error
          /\ call.out.output = other.output
          /\ call.out.canon = other.canon

C2_Witness ==
  /\ Returned /\ Rank = 3
  /\ call.out.error = "None"
  /\ call.context # None
  /\ Ran("unsqueeze") /\ Ran("permute")
  /\ call.out.output.shape = <<1, TargetWidth>>

\* C3 (as stated): when every value of the image lies in [0, 1], 1.0
\* included, the division by 255 does not run and the values handed to
\* preprocessing are the input values.
C3_UnitRangeNotRescaled ==
  (/\ Returned
   /\ Rank \in {3, 4}
   /\ call.out.error # "UsageError"
   /\ \A i \in DOMAIN call.image.data : InUnit(call.image.data[i]))
    => /\ ~Ran("div255")
       /\ call.out.error = "None"
       /\ \A i \in DOMAIN call.image.data :
            \E j \in DOMAIN call.out.canon.data :
              call.out.canon.data[j] = call.image.data[i]

\* C4: the image that reaches the backbone has every element in [0, 1];
\* when an element is >= 1.0 and the call succeeds, the canonical image
\* lies in [0, 1] with maximum <= 1.0; and a call whose image, divided by
\* 255, still has an element outside [0, 1] fails with the range error and
\* never reaches the backbone.
C4_RangeBeforeBackbone ==
  Returned =>
    /\ Ran("net") =>
         /\ call.out.canon # None
         /\ \A i \in DOMAIN call.out.canon.data : InUnit(call.out.canon.data[i])
    /\ (call.out.error = "None" /\ \E i \in DOMAIN call.image.data :
                                      call.image.data[i] >= One)
         => /\ Ran("div255")
            /\ \A i \in DOMAIN call.out.canon.data :
                 /\ InUnit(call.out.canon.data[i])
                 /\ \E j \in DOMAIN call.image.data :
                      call.out.canon.data[i] * 255 = call.image.data[j]
    /\ (/\ call.out.error # "UsageError"
        /\ Rank \in {3, 4}
        /\ \E i \in DOMAIN call.image.data : call.image.data[i] >= One
        /\ \E i \in DOMAIN call.image.data :
             call.image.data[i] < 0 \/ call.image.data[i] > 255 * One)
         => /\ call.out.error = "RangeError"
            /\ call.out.output = None
            /\ ~Ran("preprocess") /\ ~Ran("net")

C4_Witness ==
  /\ Returned
  /\ call.out.error = "None"
  /\ Ran("div255") /\ Ran("net")
  /\ \E i \in DOMAIN call.image.data : call.image.data[i] = 255 * One
  /\ \E i \in DOMAIN call.out.canon.data : call.out.canon.data[i] = One
  /\ \E i \in DOMAIN call.out.canon.data : call.out.canon.data[i] = One \div 255

\* C5: in a successful call without include_top, an absent context means
\* neither conv1x1 nor film_layer runs and the output is (batch, native
\* width); a present context means net, then conv1x1 once, then film_layer
\* once, and the output is (batch, 512).
C5_ConditioningPath ==
  (Returned /\ ~enc.include_top /\ call.out.error = "None")
    => IF call.context = None
       THEN /\ ~Ran("conv1x1") /\ ~Ran("film_layer")
            /\ Times("net") = 1
            /\ call.out.output.shape = <<Img4.shape[1], 1536>>
            /\ call.out.output.data[1].op = "net"
       ELSE /\ Times("net") = 1
            /\ Times("conv1x1") = 1
            /\ Times("film_layer") = 1
            /\ At("net") < At("conv1x1")
            /\ At("conv1x1") < At("film_layer")
            /\ call.out.output.shape = <<Img4.shape[1], 512>>
            /\ call.out.output.data[1].op = "film_layer"
            /\ call.out.output.data[1].args[1].op = "conv1x1"
            /\ call.out.output.data[1].args[1].args[1].op = "net"
            /\ call.out.output.data[1].args[2] = call.context

C5_Witness ==
  /\ Returned /\ ~enc.include_top /\ call.out.error = "None"
  /\ call.context # None
  /\ Img4.shape[1] = 2
  /\ call.out.output.shape = <<2, 512>>

\* C6: forward of the encoder with the pooling flag set and with it clear
\* give the same outcome: the same error, or outputs of the same rank-2
\* shape (batch, channels) with the same values.
C6_PoolingIsNoOp ==
  Returned
    => LET other == forward([enc EXCEPT !._pooling = ~@], call.image, call.context)
       IN /\ call.out.error = other.error
          /\ call.out.output = other.output
          /\ call.out.error = "None"
               => /\ Len(call.out.output.shape) = 2
                  /\ call.out.output.shape[1] = Img4.shape[1]
                  /\ call.out.output.shape[2] \in {512, 1536, TopWidth}
                  /\ Len(call.out.output.data) = 1
                  /\ Ran("flatten")
                  /\ Ran("avg_pool2d") <=> enc._pooling

C6_Witness ==
  /\ Returned /\ enc._pooling
  /\ call.out.error = "None"
  /\ Ran("avg_pool2d")
  /\ call.context # None

C8_RankRejected ==
  (Returned /\ call.out.error # "UsageError" /\ Rank \notin {3, 4})
    => /\ call.out.error = "ShapeError"
       /\ call.out.output = None
       /\ call.out.canon = None
       /\ \A step \in LaterSteps : ~Ran(step)

C8_Witness ==
  /\ Returned /\ Rank = 5
  /\ call.image.shape[5] = 3
  /\ torch_max(call.image) >= One
  /\ call.out.error = "ShapeError"

\* C9 (as documented): with include_top set, every forward call fails.
C9_IncludeTopAlwaysFails ==
  (Returned /\ enc.include_top) => call.out.error # "None"

\* C10: the image handed to preprocessing has rank 4; its axes are those of
\* the rank-4 input permuted from (B, H, W, C) to (B, C, H, W) exactly when
\* the last axis is 3, element for element, and otherwise in the input's
\* order; an image with exactly one of its second and last axes equal to 3
\* comes out with 3 channels on axis 1.
C10_ChannelFirst ==
  (Returned /\ call.out.canon # None)
    => LET s == Img4.shape
           c == call.out.canon
           k == IF Ran("div255") THEN 255 ELSE 1
       IN /\ Len(c.shape) = 4
          /\ Ran("permute") <=> s[4] = 3
          /\ IF s[4] = 3
             THEN /\ c.shape = <<s[1], s[4], s[2], s[3]>>
                  /\ \A b \in 0..(s[1] - 1), h \in 0..(s[2] - 1),
                        w \in 0..(s[3] - 1), ch \in 0..(s[4] - 1) :
                       c.data[((b * s[4] + ch) * s[2] + h) * s[3] + w + 1] * k
                         = Img4.data[((b * s[2] + h) * s[3] + w) * s[4] + ch + 1]
             ELSE /\ c.shape = s
                  /\ \A i \in DOMAIN c.data : c.data[i] * k = Img4.data[i]
          /\ ((s[2] = 3) # (s[4] = 3)) => c.shape[2] = 3

C10_Witness ==
  /\ Returned /\ call.out.canon # None
  /\ Img4.shape = <<1, 1, 2, 3>>
  /\ call.out.canon.shape = <<1, 3, 1, 2>>
  /\ call.out.canon.data # Img4.data
  /\ ~Ran("div255")

====
